---- MODULE Spec2Model ----
(***************************************************************************)
(* A model of list_of_jobs4.py: the listing-page scanner (scrape_page),    *)
(* the field extractor (scrape_job_details), the sub-link follower         *)
(* (scrape_click_value), the batch crawler (scrape_in_batches) and the     *)
(* persistence sink (save_to_csv).                                         *)
(*                                                                         *)
(* Python's None is the empty sequence <<>> and a present value v is the   *)
(* one-element sequence <<v>>.  A parsed page (a soup) is the sequence of  *)
(* its elements in document order; an element has a tag name, an optional  *)
(* class attribute, an optional href attribute and its text.  A fetch      *)
(* outcome is [kind, soup]: kind "ok" carries the parsed page, kinds       *)
(* "transport", "status" and "parse" are the exceptions requests.get,      *)
(* raise_for_status and BeautifulSoup can raise.                           *)
(***************************************************************************)
EXTENDS Integers, Sequences, FiniteSets, TLC

VARIABLES
    pc,           \* position of the running function
    arg,          \* the arguments of a single scrape_page / scrape_job_details call
    ret,          \* what that call returned
    max_pages,    \* scrape_in_batches: its argument
    start,        \* scrape_in_batches: the page cursor
    iter,         \* scrape_in_batches: iterations done of `for _ in range(BATCH_SIZE)`
    job_links,    \* scrape_in_batches: the links of the current page not yet visited
    batch_jobs,   \* scrape_in_batches: the current batch
    all_batches,  \* scrape_in_batches: the cumulative result
    now,          \* the wall clock, in minutes since Epoch
    files,        \* the file system: file name -> lines written
    scanned,      \* history: the offsets passed to scrape_page, in call order
    sawEmpty,     \* history: some scrape_page call of the run returned no link
    nExtract,     \* history: number of scrape_job_details calls
    extracted,    \* history: the records scrape_job_details returned, in call order
    persisted     \* history: the save_to_csv calls, [batch_num, filename, jobs]

vars == <<pc, arg, ret, max_pages, start, iter, job_links, batch_jobs, all_batches,
          now, files, scanned, sawEmpty, nExtract, extracted, persisted>>

crawlVars == <<max_pages, start, iter, job_links, batch_jobs, all_batches,
               now, files, scanned, sawEmpty, nExtract, extracted, persisted>>

-----------------------------------------------------------------------------
(* Bounds of the model *)

\* largest max_pages the crawler is run with
MaxPages == 6
\* largest number of anchors on an index page given to a single scrape_page call
MaxAnchors == 3
\* latest minute the wall clock reaches
MaxMinute == 1

-----------------------------------------------------------------------------
(* Program constants *)

HOST == "https://www.stellenwerk.de"
BATCH_SIZE == 5
PAGE_STEP == 10
SNIPPET_LEN == 200
NA == "N/A"
FIELDNAMES ==
    <<"Title", "Company", "Location", "Salary", "Posted Date", "URL",
      "Dein Job", "Dein Profil">>

-----------------------------------------------------------------------------
(* Strings and options *)

None == <<>>
Some(v) == <<v>>

Min(S) == CHOOSE m \in S : \A n \in S : m <= n

ListToSet(s) == { s[i] : i \in DOMAIN s }

\* Python `sub in s`
Contains(s, sub) ==
    \E i \in 1..(Len(s) - Len(sub) + 1) : SubSeq(s, i, i + Len(sub) - 1) = sub

\* Python s.startswith(p)
StartsWith(s, p) == Len(s) >= Len(p) /\ SubSeq(s, 1, Len(p)) = p

\* Python s[:n]
Take(s, n) == IF Len(s) <= n THEN s ELSE SubSeq(s, 1, n)

UpperChars == "ABCDEFGHIJKLMNOPQRSTUVWXYZ"
LowerChars == "abcdefghijklmnopqrstuvwxyz"

LowerChar(c) ==
    LET hit == { i \in 1..Len(UpperChars) : SubSeq(UpperChars, i, i) = c }
    IN  IF hit = {} THEN c ELSE SubSeq(LowerChars, Min(hit), Min(hit))

RECURSIVE Lower(_)
\* Python s.lower(), on ASCII
Lower(s) ==
    IF Len(s) = 0 THEN s
    ELSE LowerChar(SubSeq(s, 1, 1)) \o Lower(SubSeq(s, 2, Len(s)))

RECURSIVE LStrip(_)
LStrip(s) ==
    IF Len(s) > 0 /\ SubSeq(s, 1, 1) = " " THEN LStrip(SubSeq(s, 2, Len(s))) ELSE s

RECURSIVE RStrip(_)
RStrip(s) ==
    IF Len(s) > 0 /\ SubSeq(s, Len(s), Len(s)) = " "
    THEN RStrip(SubSeq(s, 1, Len(s) - 1)) ELSE s

\* Python s.strip(), on blanks
Strip(s) == RStrip(LStrip(s))

-----------------------------------------------------------------------------
(* BeautifulSoup *)

Elem(name, class, href, text) ==
    [name |-> name, class |-> class, href |-> href, text |-> text]

\* soup.find(...): the first element in document order among the matching
\* positions `hit`, or None
FirstAt(soup, hit) == IF hit = {} THEN None ELSE Some(soup[Min(hit)])

\* soup.find('h1'), soup.find('h2')
FindTag(soup, name) == FirstAt(soup, { i \in DOMAIN soup : soup[i].name = name })

\* soup.find(class_='company-name')
FindClass(soup, class) ==
    FirstAt(soup, { i \in DOMAIN soup : soup[i].class = Some(class) })

\* soup.find(class_=lambda x: x and 'employer' in x.lower())
FindClassLike(soup, word) ==
    FirstAt(soup, { i \in DOMAIN soup :
                      soup[i].class # None /\ Contains(Lower(soup[i].class[1]), word) })

\* soup.find(lambda tag: tag.name == "a" and "dein job" in tag.get_text(strip=True).lower())
FindAnchorText(soup, phrase) ==
    FirstAt(soup, { i \in DOMAIN soup :
                      soup[i].name = "a" /\ Contains(Lower(Strip(soup[i].text)), phrase) })

\* soup.find('div', class_=lambda x: x and 'description' in x.lower())
FindDivClassLike(soup, word) ==
    FirstAt(soup, { i \in DOMAIN soup :
                      soup[i].name = "div" /\ soup[i].class # None
                      /\ Contains(Lower(soup[i].class[1]), word) })

\* Python `a or b` on Tag-or-None operands: a Tag is always truthy
Or(a, b) == IF a # None THEN a ELSE b

\* elem.get_text(strip=True) of an element holding one text node
GetText(e) == Strip(e.text)

RECURSIVE JoinTexts(_)
\* soup.get_text(separator=" ", strip=True): the non-empty stripped texts, joined by " "
JoinTexts(soup) ==
    IF soup = <<>> THEN ""
    ELSE LET head == Strip(soup[1].text)
             rest == JoinTexts(Tail(soup))
         IN  IF head = "" THEN rest
             ELSE IF rest = "" THEN head
             ELSE head \o " " \o rest

Ok(soup) == [kind |-> "ok", soup |-> soup]
Failed(kind) == [kind |-> kind, soup |-> <<>>]
FailureKinds == {"transport", "status", "parse"}

-----------------------------------------------------------------------------
(* scrape_click_value: the sub-link follower *)

scrape_click_value(url, outcome) ==
    IF outcome.kind # "ok" THEN NA
    ELSE LET soup == outcome.soup
             content_elem == FindDivClassLike(soup, "description")
             content == IF content_elem # None THEN Strip(content_elem[1].text)
                        ELSE JoinTexts(soup)
         IN  Take(content, SNIPPET_LEN)

-----------------------------------------------------------------------------
(* scrape_job_details: the field extractor *)

\* lines 77-83 and 88-93: follow an anchor found by its text
FollowAnchor(anchor, subOutcome) ==
    IF anchor # None /\ anchor[1].href # None
    THEN LET href == anchor[1].href[1]
             link == IF ~StartsWith(href, "http") THEN HOST \o href ELSE href
         IN  [value |-> scrape_click_value(link, subOutcome), fetched |-> <<link>>]
    ELSE [value |-> NA, fetched |-> <<>>]

\* the dict of lines 95-104
JobDict(soup, full_url, dein_job_value, dein_profil_value) ==
    LET title_elem == Or(FindTag(soup, "h1"), FindClassLike(soup, "title"))
        company_elem == Or(Or(FindClass(soup, "company-name"),
                              FindClassLike(soup, "employer")),
                           FindTag(soup, "h2"))
        location_elem == Or(FindClass(soup, "job-location"),
                            FindClassLike(soup, "location"))
        salary_elem == Or(FindClass(soup, "salary"), FindClassLike(soup, "gehalt"))
        date_elem == Or(FindClass(soup, "posting-date"), FindClassLike(soup, "date"))
        TextOrNA(elem) == IF elem # None THEN GetText(elem[1]) ELSE NA
    IN  [f \in ListToSet(FIELDNAMES) |->
            CASE f = "Title" -> TextOrNA(title_elem)
              [] f = "Company" -> TextOrNA(company_elem)
              [] f = "Location" -> TextOrNA(location_elem)
              [] f = "Salary" -> TextOrNA(salary_elem)
              [] f = "Posted Date" -> TextOrNA(date_elem)
              [] f = "URL" -> full_url
              [] f = "Dein Job" -> dein_job_value
              [] f = "Dein Profil" -> dein_profil_value]

\* line 54
FullUrl(url) == HOST \o url

\* scrape_job_details as it would be were scrape_click_value to let the failure
\* of its request escape: the except clause of line 106 then returns None
scrape_job_details_escaping(url, outcome, jobOutcome, profilOutcome) ==
    LET full_url == FullUrl(url)
    IN  IF outcome.kind # "ok" THEN [job |-> None, fetched |-> <<full_url>>]
        ELSE LET soup == outcome.soup
                 dein_job == FollowAnchor(FindAnchorText(soup, "dein job"), jobOutcome)
                 dein_profil ==
                     FollowAnchor(FindAnchorText(soup, "dein profil"), profilOutcome)
                 escaped == \/ dein_job.fetched # <<>> /\ jobOutcome.kind # "ok"
                            \/ dein_profil.fetched # <<>> /\ profilOutcome.kind # "ok"
             IN  [job |-> IF escaped THEN None
                          ELSE Some(JobDict(soup, full_url, dein_job.value,
                                            dein_profil.value)),
                  fetched |-> <<full_url>> \o dein_job.fetched \o dein_profil.fetched]

\* [job, fetched]: the returned dict or None, and the addresses requested
scrape_job_details(url, outcome, jobOutcome, profilOutcome) ==
    LET full_url == FullUrl(url)
    IN  IF outcome.kind # "ok" THEN [job |-> None, fetched |-> <<full_url>>]
        ELSE LET soup == outcome.soup
                 dein_job == FollowAnchor(FindAnchorText(soup, "dein job"), jobOutcome)
                 dein_profil ==
                     FollowAnchor(FindAnchorText(soup, "dein profil"), profilOutcome)
             IN  [job |-> Some(JobDict(soup, full_url, dein_job.value,
                                       dein_profil.value)),
                  fetched |-> <<full_url>> \o dein_job.fetched \o dein_profil.fetched]

-----------------------------------------------------------------------------
(* scrape_page: the listing-page scanner *)

ExcludedMarkers == {"account", "login", "register"}

RECURSIVE CollectLinks(_)
\* lines 124-128: the hrefs appended to job_links, in document order
CollectLinks(hrefs) ==
    IF hrefs = <<>> THEN <<>>
    ELSE LET href == Head(hrefs)
             rest == CollectLinks(Tail(hrefs))
         IN  IF Contains(href, "/hamburg/")
                /\ ~(\E x \in ExcludedMarkers : Contains(href, x))
             THEN <<href>> \o rest
             ELSE rest

\* the lists list(set(l)) can be: every order of l's distinct elements
Orders(S) ==
    { s \in [1..Cardinality(S) -> S] : \A i, j \in DOMAIN s : i # j => s[i] # s[j] }

\* scrape_page as it would be were line 131 to return job_links itself
scrape_page_keeping_duplicates(hrefs, outcome) ==
    IF outcome # "ok" THEN {<<>>} ELSE {CollectLinks(hrefs)}

\* the lists scrape_page can return for an index page whose anchors carry `hrefs`
scrape_page(hrefs, outcome) ==
    IF outcome # "ok" THEN {<<>>}
    ELSE Orders(ListToSet(CollectLinks(hrefs)))

-----------------------------------------------------------------------------
(* save_to_csv: the persistence sink *)

\* the instant the wall clock shows 0
Epoch == [date |-> "2024-01-01", hour |-> 10]

\* '%02d'
Pad2(n) == IF n < 10 THEN "0" \o ToString(n) ELSE ToString(n)

\* datetime.strftime('%Y-%m-%d_%H-%M') of minute t after Epoch, within Epoch's day
strftime(t) == Epoch.date \o "_" \o Pad2(Epoch.hour + (t \div 60)) \o "-" \o Pad2(t % 60)

\* lines 178-181; batch_num 0 stands for every falsy batch_num (None, 0)
FileName(batch_num, timestamp) ==
    IF batch_num # 0
    THEN "stellenwerk_jobs_batch" \o ToString(batch_num) \o "_" \o timestamp \o ".csv"
    ELSE "stellenwerk_jobs_" \o timestamp \o ".csv"

\* writer.writeheader(); writer.writerows(jobs)
CsvLines(jobs) ==
    <<FIELDNAMES>> \o [i \in DOMAIN jobs |-> [k \in DOMAIN FIELDNAMES |-> jobs[i][FIELDNAMES[k]]]]

\* open(filename, 'w') creates the file, or truncates the file of that name
WriteFile(fs, filename, lines) ==
    [n \in DOMAIN fs \cup {filename} |-> IF n = filename THEN lines ELSE fs[n]]

\* datetime.now() reads a clock that never runs backwards
save_to_csv(jobs, batch_num) ==
    \E t \in now..MaxMinute :
        LET filename == FileName(batch_num, strftime(t))
        IN  /\ now' = t
            /\ files' = WriteFile(files, filename, CsvLines(jobs))
            /\ persisted' = Append(persisted,
                   [batch_num |-> batch_num, filename |-> filename, jobs |-> jobs])

-----------------------------------------------------------------------------
(* scrape_in_batches: the batch crawler *)

JobLink1 == "/hamburg/jobs/1"
JobLink2 == "/hamburg/jobs/2"

\* the anchors of the site's index page at offset `offset` while it lists jobs
Listing(offset) ==
    IF offset = 0
    THEN <<JobLink1, JobLink1, "/hamburg/account/x", JobLink2>>
    ELSE <<JobLink1>>

\* what a fetch of the index page at `offset` can find: the listing, a page
\* without listings (past the last page), or a failed request
IndexInputs(offset) ==
    { [hrefs |-> Listing(offset), outcome |-> "ok"],
      [hrefs |-> <<>>, outcome |-> "ok"],
      [hrefs |-> Listing(offset), outcome |-> "status"] }

\* what a fetch of a listing can find during the crawl
CrawlOutcomes == { Ok(<<Elem("h1", None, None, "Backend Engineer")>>), Failed("status") }

\* line 161
BatchNum(cursor) == (cursor \div (BATCH_SIZE * PAGE_STEP)) + 1

\* Python truthiness of scrape_job_details' result: None and {} are falsy
Truthy(job) == job # None /\ DOMAIN job[1] # {}

\* EnterBatch as it would be were line 145 to stand before the while loop
EnterBatch_keeping_batch ==
    /\ pc = "while"
    /\ start < max_pages * PAGE_STEP
    /\ iter' = 0
    /\ pc' = "for"
    /\ UNCHANGED <<arg, ret, max_pages, start, job_links, batch_jobs, all_batches, now,
                   files, scanned, sawEmpty, nExtract, extracted, persisted>>

\* line 144, condition true: a new batch begins (line 145)
EnterBatch ==
    /\ pc = "while"
    /\ start < max_pages * PAGE_STEP
    /\ batch_jobs' = <<>>
    /\ iter' = 0
    /\ pc' = "for"
    /\ UNCHANGED <<arg, ret, max_pages, start, job_links, all_batches, now, files,
                   scanned, sawEmpty, nExtract, extracted, persisted>>

\* line 144, condition false: line 171
ReturnAtBudget ==
    /\ pc = "while"
    /\ ~(start < max_pages * PAGE_STEP)
    /\ pc' = "done"
    /\ UNCHANGED <<arg, ret, crawlVars>>

\* lines 147-149
ScanPage ==
    /\ pc = "for"
    /\ \E input \in IndexInputs(start) :
         \E links \in scrape_page(input.hrefs, input.outcome) :
            /\ job_links' = links
            /\ scanned' = Append(scanned, start)
            /\ sawEmpty' = (sawEmpty \/ links = <<>>)
            /\ pc' = IF links = <<>> THEN "flush" ELSE "links"
    /\ UNCHANGED <<arg, ret, max_pages, start, iter, batch_jobs, all_batches, now,
                   files, nExtract, extracted, persisted>>

\* lines 151-155, one iteration
VisitLink ==
    /\ pc = "links"
    /\ job_links # <<>>
    /\ \E outcome \in CrawlOutcomes :
         LET job == scrape_job_details(Head(job_links), outcome,
                                       Failed("transport"), Failed("transport")).job
         IN  /\ batch_jobs' = IF Truthy(job) THEN Append(batch_jobs, job[1])
                              ELSE batch_jobs
             /\ extracted' = IF job # None THEN Append(extracted, job[1]) ELSE extracted
    /\ nExtract' = nExtract + 1
    /\ job_links' = Tail(job_links)
    /\ UNCHANGED <<pc, arg, ret, max_pages, start, iter, all_batches, now, files,
                   scanned, sawEmpty, persisted>>

\* lines 157-158, and the next turn of line 146
NextPage ==
    /\ pc = "links"
    /\ job_links = <<>>
    /\ start' = start + PAGE_STEP
    /\ iter' = iter + 1
    /\ pc' = IF iter + 1 < BATCH_SIZE THEN "for" ELSE "flush"
    /\ UNCHANGED <<arg, ret, max_pages, job_links, batch_jobs, all_batches, now,
                   files, scanned, sawEmpty, nExtract, extracted, persisted>>

\* lines 160-167
PersistBatch ==
    /\ pc = "flush"
    /\ batch_jobs # <<>>
    /\ save_to_csv(batch_jobs, BatchNum(start))
    /\ all_batches' = all_batches \o batch_jobs
    /\ pc' = "while"
    /\ UNCHANGED <<arg, ret, max_pages, start, iter, job_links, batch_jobs, scanned,
                   sawEmpty, nExtract, extracted>>

\* lines 168-169, then line 171
StopOnEmptyBatch ==
    /\ pc = "flush"
    /\ batch_jobs = <<>>
    /\ pc' = "done"
    /\ UNCHANGED <<arg, ret, crawlVars>>

\* the crawler before its first statement, lines 141-142
CrawlStart ==
    /\ start = 0
    /\ iter = 0
    /\ job_links = <<>>
    /\ batch_jobs = <<>>
    /\ all_batches = <<>>
    /\ now = 0
    /\ files = <<>>
    /\ scanned = <<>>
    /\ sawEmpty = FALSE
    /\ nExtract = 0
    /\ extracted = <<>>
    /\ persisted = <<>>

Init ==
    /\ pc = "while"
    /\ arg = <<>>
    /\ ret = <<>>
    /\ max_pages \in 0..MaxPages
    /\ CrawlStart

Next ==
    \/ EnterBatch
    \/ ReturnAtBudget
    \/ ScanPage
    \/ VisitLink
    \/ NextPage
    \/ PersistBatch
    \/ StopOnEmptyBatch

Spec == Init /\ [][Next]_vars

-----------------------------------------------------------------------------
(* Single calls of scrape_page and of scrape_job_details *)

\* hrefs an index page's anchors can carry
Hrefs ==
    { JobLink1, JobLink2, "/hamburg/account/x", "/hamburg/login", "/hamburg/register",
      "/berlin/jobs/3", "https://www.stellenwerk.de/hamburg/jobs/4" }

HrefLists == UNION { [1..n -> Hrefs] : n \in 0..MaxAnchors }

\* the links scrape_page can return
ScanLinks ==
    UNION { ListToSet(links) : links \in UNION { scrape_page(<<h>>, "ok") : h \in Hrefs } }

InitScan ==
    /\ pc = "call"
    /\ arg \in [hrefs : HrefLists, outcome : {"ok"} \cup FailureKinds]
    /\ ret = <<>>
    /\ max_pages = 0
    /\ CrawlStart

CallScrapePage ==
    /\ pc = "call"
    /\ \E links \in scrape_page(arg.hrefs, arg.outcome) : ret' = links
    /\ pc' = "return"
    /\ UNCHANGED <<arg, crawlVars>>

SpecScan == InitScan /\ [][CallScrapePage]_vars

\* listing pages
PageFull ==
    <<Elem("h1", None, None, "Backend Engineer"),
      Elem("span", Some("company-name"), None, " ACME GmbH "),
      Elem("span", Some("job-location"), None, "Hamburg"),
      Elem("span", Some("salary"), None, "15 EUR"),
      Elem("span", Some("posting-date"), None, "01.01.2024"),
      Elem("a", None, Some("/hamburg/jobs/1/dein-job"), "Dein Job"),
      Elem("a", None, Some("https://www.stellenwerk.de/hamburg/jobs/1/profil"),
           " DEIN PROFIL ")>>

PageLoose ==
    <<Elem("div", Some("JobTitle"), None, "Tutor"),
      Elem("h2", None, None, "Uni Hamburg"),
      Elem("div", Some("Employer-Box"), None, "Institut"),
      Elem("div", Some("map-Location"), None, "Altona"),
      Elem("div", Some("Gehaltsangabe"), None, "13 EUR"),
      Elem("div", Some("pubDate"), None, "gestern"),
      Elem("a", None, Some("/hamburg/jobs/2/dein-job"), "Mehr zu dein job")>>

\* the scenario of a page with a heading and nothing else
PageH1Only == <<Elem("h1", None, None, "Backend Engineer")>>

\* matched elements without visible text
PageBlank ==
    <<Elem("h1", None, None, " "),
      Elem("span", Some("company-name"), None, ""),
      Elem("a", None, Some("/hamburg/jobs/1/dein-job"), "dein job")>>

\* anchors that cannot be followed
PageNoHref ==
    <<Elem("h2", None, None, "Cafe"),
      Elem("a", None, None, "Dein Job"),
      Elem("a", None, None, "Dein Profil")>>

ListingPages == { PageFull, PageLoose, PageH1Only, PageBlank, PageNoHref, <<>> }

RECURSIVE Repeat(_, _)
Repeat(s, n) == IF n = 0 THEN "" ELSE s \o Repeat(s, n - 1)

\* pages behind the "dein job" / "dein profil" anchors
SubDescription ==
    <<Elem("p", None, None, "Intro"),
      Elem("div", Some("job-Description"), None, "  Build things  ")>>

SubPlain == <<Elem("p", None, None, "Hello"), Elem("p", None, None, " world ")>>

SubLong == <<Elem("div", Some("description"), None, Repeat("0123456789", 21))>>

SubPages == { SubDescription, SubPlain, SubLong, <<>> }

PageOutcomes == { Ok(p) : p \in ListingPages } \cup { Failed(k) : k \in FailureKinds }
SubOutcomes == { Ok(p) : p \in SubPages } \cup { Failed(k) : k \in FailureKinds }

InitExtract ==
    /\ pc = "call"
    /\ arg \in [url : ScanLinks, outcome : PageOutcomes,
                jobOutcome : SubOutcomes, profilOutcome : SubOutcomes]
    /\ ret = <<>>
    /\ max_pages = 0
    /\ CrawlStart

CallScrapeJobDetails ==
    /\ pc = "call"
    /\ ret' = scrape_job_details(arg.url, arg.outcome, arg.jobOutcome, arg.profilOutcome)
    /\ pc' = "return"
    /\ UNCHANGED <<arg, crawlVars>>

SpecExtract == InitExtract /\ [][CallScrapeJobDetails]_vars

-----------------------------------------------------------------------------
(* Properties of the batch crawler, under Spec *)

Budget == max_pages * PAGE_STEP

\* C1: run(N) advances the page cursor by at most N page-iterations: the cursor
\* never exceeds N*10 and no index page at an offset >= N*10 is scanned.
CursorWithinBudget ==
    /\ start <= Budget
    /\ \A i \in DOMAIN scanned : scanned[i] < Budget

\* C2: once a scrape_page call has returned no link, no further scrape_page or
\* scrape_job_details call is made in the run.
NoFetchAfterEmptyPage ==
    [][sawEmpty => (scanned' = scanned /\ nExtract' = nExtract)]_vars

\* C3: within one run every save_to_csv call writes a file whose name differs
\* from the name of every earlier call, so no persisted batch is overwritten.
PersistedFileNamesDistinct ==
    \A i, j \in DOMAIN persisted :
        i # j => persisted[i].filename # persisted[j].filename

\* C8: whenever the run is done, the cursor has reached max_pages*10 or some
\* scrape_page call of the run returned no link.
DoneOnlyAtBudgetOrEmptyPage ==
    pc = "done" => (start >= Budget \/ sawEmpty)

\* C9: the offsets passed to scrape_page start at 0 and each later one is
\* exactly 10 greater than the one before it, so no offset is scanned twice.
OffsetsStrictlyIncreasing ==
    \A i \in DOMAIN scanned : scanned[i] = (i - 1) * PAGE_STEP

RECURSIVE Flatten(_)
Flatten(batches) ==
    IF batches = <<>> THEN <<>> ELSE Head(batches) \o Flatten(Tail(batches))

PersistedBatches == [i \in DOMAIN persisted |-> persisted[i].jobs]

\* C10: at termination the returned sequence is the concatenation, in persist
\* order, of the batches handed to save_to_csv, it holds exactly the records
\* scrape_job_details returned, each once and in call order, and no empty
\* batch was handed to save_to_csv.
ReturnedEqualsPersistedEqualsExtracted ==
    pc = "done" =>
        /\ all_batches = Flatten(PersistedBatches)
        /\ all_batches = extracted
        /\ \A i \in DOMAIN persisted : persisted[i].jobs # <<>>

\* a finished run of two persisted batches, with both links of the first page
\* extracted and some listing whose fetch failed
ReturnedAfterTwoBatchesAndAFailure ==
    /\ pc = "done"
    /\ Len(persisted) >= 2
    /\ Len(extracted) >= 3
    /\ nExtract > Len(extracted)
    /\ \E i, j \in DOMAIN all_batches : all_batches[i]["URL"] # all_batches[j]["URL"]

-----------------------------------------------------------------------------
(* Properties of scrape_page, under SpecScan *)

IsListingHref(h) ==
    /\ Contains(h, "/hamburg/")
    /\ ~Contains(h, "account")
    /\ ~Contains(h, "login")
    /\ ~Contains(h, "register")

\* C5: scrape_page returns a list without repeated element whose elements are
\* exactly the distinct hrefs of the page that contain "/hamburg/" and none of
\* "account", "login", "register"; when the fetch fails it returns no link.
ScanReturnsDistinctListingLinks ==
    pc = "return" /\ "hrefs" \in DOMAIN arg =>
        /\ \A i, j \in DOMAIN ret : i # j => ret[i] # ret[j]
        /\ ListToSet(ret) =
              IF arg.outcome = "ok"
              THEN { h \in ListToSet(arg.hrefs) : IsListingHref(h) }
              ELSE {}

\* the scenario: a duplicated listing link and an account link
ScannedDuplicateAndAccountLink ==
    /\ pc = "return"
    /\ "hrefs" \in DOMAIN arg
    /\ arg.outcome = "ok"
    /\ arg.hrefs = <<"/hamburg/jobs/1", "/hamburg/jobs/1", "/hamburg/account/x">>
    /\ ret = <<"/hamburg/jobs/1">>

-----------------------------------------------------------------------------
(* Properties of scrape_job_details, under SpecExtract *)

Extracted == pc = "return" /\ "url" \in DOMAIN arg

Fields == ListToSet(FIELDNAMES)

\* C4: every field of a returned record is non-empty text or "N/A", never the
\* empty string.
NoEmptyField ==
    Extracted /\ ret.job # None => \A f \in Fields : ret.job[1][f] # ""

OkSubOutcomes == { o \in SubOutcomes : o.kind = "ok" }

\* the record returned for the call's listing page with the given sub-fetch outcomes
RecordWith(jobOutcome, profilOutcome) ==
    scrape_job_details(arg.url, arg.outcome, jobOutcome, profilOutcome).job[1]

\* C6: if the listing page is fetched, a record is returned whatever the
\* sub-fetches do; a failed sub-fetch leaves "N/A" in its own field and every
\* other field as it is when that sub-fetch succeeds.
SubFetchFailureIsLocal ==
    Extracted /\ arg.outcome.kind = "ok" =>
        /\ ret.job # None
        /\ arg.jobOutcome.kind # "ok" =>
              /\ ret.job[1]["Dein Job"] = NA
              /\ \A o \in OkSubOutcomes : \A f \in Fields \ {"Dein Job"} :
                    ret.job[1][f] = RecordWith(o, arg.profilOutcome)[f]
        /\ arg.profilOutcome.kind # "ok" =>
              /\ ret.job[1]["Dein Profil"] = NA
              /\ \A o \in OkSubOutcomes : \A f \in Fields \ {"Dein Profil"} :
                    ret.job[1][f] = RecordWith(arg.jobOutcome, o)[f]

\* both anchors followed, the "dein job" request refused, the other answered
DeinJobFetchFailedProfilFetched ==
    /\ Extracted
    /\ arg.outcome = Ok(PageFull)
    /\ arg.jobOutcome = Failed("status")
    /\ arg.profilOutcome = Ok(SubPlain)
    /\ Len(ret.fetched) = 3
    /\ ret.job # None
    /\ ret.job[1]["Dein Job"] = NA
    /\ ret.job[1]["Dein Profil"] = "Hello world"
    /\ ret.job[1]["Title"] = "Backend Engineer"

\* the absolute address of a link: the base host is prefixed only to a link
\* that is not absolute already
Resolved(link) == IF StartsWith(link, "http") THEN link ELSE HOST \o link

\* C7: the listing is requested at, and its URL field holds, the link itself
\* when the link is absolute and base host + link when it is relative.
ListingUrlResolved ==
    Extracted =>
        /\ ret.fetched[1] = Resolved(arg.url)
        /\ ret.job # None => ret.job[1]["URL"] = Resolved(arg.url)

====
